---- MODULE Spec2Model ----
(***************************************************************************)
(* zCloak keeper: scan -> queue -> verify -> submit.                       *)
(*                                                                         *)
(*   scan_events        src/moonbeam/src/lib.rs                            *)
(*   submit_txs         src/moonbeam/src/lib.rs                            *)
(*   task_verify        src/ipfs/src/task.rs                               *)
(*   query_attestation  src/supports/support-kilt-node/src/lib.rs          *)
(*   EventResult, VerifyResult, ProofEvent  src/primitives/src/lib.rs      *)
(*   fetch_proof        src/components/ipfs/src/client.rs                  *)
(*                                                                         *)
(* Each stage is an independent task, so each has its own specification    *)
(* (SpecScan, SpecVerify, SpecSubmit, SpecKilt); a stage's specification   *)
(* holds the other stages' variables at their initial values.  SpecPrim    *)
(* applies the functions of primitives to one input each, and              *)
(* SpecScanFixedBest is the scanner called again and again under fairness. *)
(*                                                                         *)
(* Option<T> is a sequence: None is <<>> and Some(x) is <<x>>.             *)
(***************************************************************************)
EXTENDS Integers, Sequences, FiniteSets, TLC

VARIABLES
    \* ---- scan_events and its caller
    top,        \* TRUE: block numbers are counted from 2^64 - 1 - Window
    span,       \* the value of MOONBEAM_SCAN_SPAN
    best,       \* the chain's best block
    cursor,     \* the caller's scan cursor: the start of the next call
    scan_pc,    \* "ready" | "returned" | "aborted"
    scan_in,    \* arguments of the latest call
    scan_win,   \* Option of the window <<start, end>> the latest call queried
    scan_ret,   \* what the latest call returned
    scan_rpc,   \* Option of what the events query of the latest call answered
    \* ---- the windows of a chain of scan_events calls, kept by ScanEventsChained
    first_start, \* Option of the start given to the first call
    covered,    \* blocks inside the window of a call that returned Ok
    twice,      \* blocks inside the windows of two calls that returned Ok
    scan_failed, \* a call so far returned Err or panicked
    \* ---- task_verify
    inq,        \* inbound queue: the messages not yet committed, oldest first
    in_next,    \* messages enqueued so far
    acked,      \* ids of the inbound messages committed
    in_closed,  \* the inbound queue is closed: recv returns Err
    outq,       \* downstream queue: the batches accepted, oldest first
    v_pc,       \* position of task_verify; "panicked": the stage unwound
    v_cur,      \* Option of the message whose guard the iteration holds
    v_inputs,   \* Option of the parsed EventResult
    v_res,      \* Option of the derived batch of VerifyResults
    v_last,     \* the latest recv: "none" | "timeout" | "msg" | "closed"
    it_send,    \* this iteration's send:   "none" | "ok" | "failed"
    it_commit,  \* this iteration's commit: "none" | "ok" | "failed"
    v_ret,      \* what task_verify returned
    v_runs,     \* how many times the supervisor started the stage
    v_log,      \* this run's receives, sends and commits, in order
    \* ---- submit_txs and the contract state it reads
    hasSubmitted, \* contract: this keeper's submission is recorded for the pair
    isFinished,   \* contract: the pair is finalized
    pendingTx,    \* transactions broadcast and not yet mined, per pair
    issued,       \* transactions broadcast so far, per pair
    sub_pc,       \* position of submit_txs
    sub_res,      \* the batch of the current call
    sub_i,        \* index of the current item
    sub_has,      \* Option of the value hasSubmitted returned for the current item
    sub_trace,    \* the reads and submissions of the current call, in order
    sub_ret,      \* what the current call returned
    sub_calls,    \* deliveries so far
    \* ---- query_attestation
    attestations, \* KILT storage: root_hash -> "absent" | "valid" | "revoked"
    k_pc,         \* position of query_attestation
    k_root,       \* the root_hash asked for
    times,        \* the retry counter
    k_reads,      \* outcomes of the storage reads of the current call, in order
    k_details,    \* Option of the details the successful read of the call returned
    k_ret,        \* what the current call returned
    k_calls,      \* calls so far
    \* ---- the functions of primitives applied to one input
    p_op,         \* "none" | "EventResult" | "VerifyResult" | "update"
    p_pc,         \* "idle" | "ready" | "encoded" | "decoded" | "updated"
    p_in,         \* Option of the input value
    p_attest,     \* Option of the Attestation given to update_from_attestation
    p_bytes,      \* Option of the JSON written for the input
    p_out,        \* Option of the value read back, or of self after the update
    p_ret         \* what the latest function returned: "none" | "Ok" | "Err"

chainHist  == <<first_start, covered, twice, scan_failed>>
scanVars   == <<top, span, best, cursor, scan_pc, scan_in, scan_win, scan_ret,
                scan_rpc, chainHist>>
verifyVars == <<inq, in_next, acked, in_closed, outq, v_pc, v_cur, v_inputs,
                v_res, v_last, it_send, it_commit, v_ret, v_runs, v_log>>
submitVars == <<hasSubmitted, isFinished, pendingTx, issued, sub_pc, sub_res,
                sub_i, sub_has, sub_trace, sub_ret, sub_calls>>
kiltVars   == <<attestations, k_pc, k_root, times, k_reads, k_details, k_ret,
                k_calls>>
primVars   == <<p_op, p_pc, p_in, p_attest, p_bytes, p_out, p_ret>>
vars       == <<scanVars, verifyVars, submitVars, kiltVars, primVars>>

None == <<>>
Some(x) == <<x>>

(***************************************************************************)
(* Bounds                                                                  *)
(***************************************************************************)
\* Block numbers of one behaviour lie in a stretch of Window + 1 values of
\* the 64-bit line: 0 .. Window, or (top) 2^64-1-Window .. 2^64-1.
Window == 5
\* MOONBEAM_SCAN_SPAN is set outside src/; every value 1 .. MaxSpan is covered.
MaxSpan == 2
\* Logs returned by one events query.
MaxLogs == 2
\* Messages the upstream stage enqueues for task_verify.
MaxMsgs == 2
\* Times the supervisor starts task_verify.
MaxRuns == 2
\* Items of one batch handed to submit_txs.
MaxBatch == 2
\* Deliveries and redeliveries of batches to submit_txs.
MaxDeliveries == 2
\* Calls of query_attestation.
MaxQueries == 2
\* Keys of an EventResult given to into_bytes.
MaxMapKeys == 2

(***************************************************************************)
(* scan_events                                                             *)
(***************************************************************************)
BlockNums == 0 .. Window

\* The fields of a ProofEvent that name the request it is about.
Owners == {"a1"}
Hashes == {"r1", "r2"}
\* The proof_cid of a ProofEvent is a String: its bytes are UTF-8.
ProofCids == {"Qm1"}

\* The bytes of a u128.
U128Bytes == 16

\* field_name as the bytes of the string: "age", the empty string, and a
\* string of one byte more than a u128 holds.
Age == <<97, 103, 101>>
FieldNames == {Age, <<>>, [i \in 1 .. U128Bytes + 1 |-> 97]}
ProofEvents ==
    [data_owner : Owners, kilt_address : {"k1"}, attester : {"t1"},
     c_type : {"c1"}, program_hash : {"g1"}, field_name : FieldNames,
     proof_cid : ProofCids, request_hash : Hashes, root_hash : {"h1"},
     expect_result : {TRUE}]

\* The events of the logs an events query returns.
ScannedEvents == {e \in ProofEvents : e.field_name = Age}

MOONBEAM_SCAN_SPAN == span

\* U64 `+` of the uint crate panics on overflow. A number n stands for n, or
\* under top for 2^64 - 1 - Window + n, so a sum overflows exactly when it
\* passes Window under top.
U64AddOverflows(a, b) == top /\ a + b > Window

\* The clamp without its assignment.
ClampStartDropped(start, best_) == start

\* if start > best { start = best }
ClampStart(start, best_) == IF start > best_ THEN best_ ELSE start

\* let end = if start + span > best { best } else { start + span };
WindowEnd(start, best_) ==
    IF start + MOONBEAM_SCAN_SPAN > best_ THEN best_ ELSE start + MOONBEAM_SCAN_SPAN

\* A hit of the events query: the decoded ProofEvent and the log it was
\* decoded from, whose block number can be missing.
Logs(start, end) ==
    [proof_event : ScannedEvents,
     log : [block_number : {None} \cup {Some(n) : n \in start .. end}]]

\* What moonbeam::utils::events can answer for the window: an error, or the
\* matching logs of the window.
RpcOutcomes(start, end) ==
    {[ok |-> FALSE, logs |-> <<>>]}
        \cup {[ok |-> TRUE, logs |-> l] :
                 l \in UNION {[1 .. n -> Logs(start, end)] : n \in 0 .. MaxLogs}}

\* The answers of the events query with at most one log.
OneLogOutcomes(start, end) ==
    {[ok |-> FALSE, logs |-> <<>>], [ok |-> TRUE, logs |-> <<>>]}
        \cup {[ok |-> TRUE, logs |-> <<l>>] : l \in Logs(start, end)}

\* A completion that gives every event the block number of the last log.
CompleteEventsLastNumber(res) ==
    [i \in 1 .. Len(res) |->
        [proof_event |-> res[i].proof_event,
         block_number |-> res[Len(res)].log.block_number]]

\* for (mut proof_event, log) in res { let number = log.block_number;
\* proof_event.set_block_number(number); result.push(proof_event.clone()) }
CompleteEvents(res) ==
    [i \in 1 .. Len(res) |->
        [proof_event |-> res[i].proof_event,
         block_number |-> res[i].log.block_number]]

\* A zero-hit scan that returns the start instead of the end.
ScanOkStale(start, end, res) ==
    IF Len(res) # 0
    THEN [tag |-> "Ok", events |-> Some(CompleteEvents(res)), cursor |-> end]
    ELSE [tag |-> "Ok", events |-> None, cursor |-> start]

\* Ok((Some(result), end)) if hit != 0, else Ok((None, end))
ScanOk(start, end, res) ==
    IF Len(res) # 0
    THEN [tag |-> "Ok", events |-> Some(CompleteEvents(res)), cursor |-> end]
    ELSE [tag |-> "Ok", events |-> None, cursor |-> end]

\* return Err((Some(start), err.into()))
ScanErr(start) == [tag |-> "Err", start |-> Some(start)]

\* The window scan_events queries for (start0, best_), when it gets that far.
ScanStart(start0, best_) == ClampStart(start0, best_)
ScanPanics(start0, best_) ==
    U64AddOverflows(ScanStart(start0, best_), MOONBEAM_SCAN_SPAN)
ScanEnd(start0, best_) == WindowEnd(ScanStart(start0, best_), best_)

\* A window that leaves its first block out.
QueriedBlocksAfterStart(start0, best_) ==
    ScanStart(start0, best_) + 1 .. ScanEnd(start0, best_)

\* The blocks of the window: Some(start), Some(end) of the events query, both
\* inclusive.
QueriedBlocks(start0, best_) == ScanStart(start0, best_) .. ScanEnd(start0, best_)

\* scan_events(start0, best_, ..) with rpc the answer of the events query.
scan_events(start0, best_, rpc) ==
    IF ScanPanics(start0, best_)
    THEN [tag |-> "Panic"]
    ELSE IF ~rpc.ok
         THEN ScanErr(ScanStart(start0, best_))
         ELSE ScanOk(ScanStart(start0, best_), ScanEnd(start0, best_), rpc.logs)

ScanInit ==
    /\ top \in BOOLEAN
    /\ span \in 1 .. MaxSpan
    /\ best \in BlockNums
    /\ cursor \in BlockNums
    /\ scan_pc = "ready"
    /\ scan_in = None
    /\ scan_win = None
    /\ scan_ret = [tag |-> "None"]
    /\ scan_rpc = None
    /\ first_start = None
    /\ covered = {}
    /\ twice = {}
    /\ scan_failed = FALSE

ScanIdle ==
    /\ top = FALSE
    /\ span = 1
    /\ best = 0
    /\ cursor = 0
    /\ scan_pc = "ready"
    /\ scan_in = None
    /\ scan_win = None
    /\ scan_ret = [tag |-> "None"]
    /\ scan_rpc = None
    /\ first_start = None
    /\ covered = {}
    /\ twice = {}
    /\ scan_failed = FALSE

\* One call scan_events(cursor, best, ..).await, with the answer of its one
\* events query drawn from outcomes.
ScanCall(outcomes) ==
    /\ scan_pc = "ready"
    /\ \E rpc \in IF ScanPanics(cursor, best)
                  THEN {[ok |-> FALSE, logs |-> <<>>]}
                  ELSE outcomes :
          LET r == scan_events(cursor, best, rpc) IN
          /\ scan_ret' = r
          /\ scan_rpc' = IF r.tag = "Panic" THEN None ELSE Some(rpc)
          /\ scan_in' = Some([start |-> cursor, best |-> best])
          /\ scan_win' = IF r.tag = "Panic"
                         THEN None
                         ELSE Some(<<ScanStart(cursor, best), ScanEnd(cursor, best)>>)
          /\ scan_pc' = IF r.tag = "Panic" THEN "aborted" ELSE "returned"
    /\ UNCHANGED <<top, span, best, cursor>>
    /\ UNCHANGED <<verifyVars, submitVars, kiltVars, primVars>>

ScanEvents ==
    /\ ScanCall(RpcOutcomes(ScanStart(cursor, best), ScanEnd(cursor, best)))
    /\ UNCHANGED chainHist

\* The call with an events query that answers an error, no log or one log.
ScanEventsOneLog ==
    /\ ScanCall(OneLogOutcomes(ScanStart(cursor, best), ScanEnd(cursor, best)))
    /\ UNCHANGED chainHist

\* The call in a chain of calls whose windows are kept: the window
\* [start, end] of a call that returned Ok is added to the blocks covered.
ScanEventsChained ==
    /\ ScanCall(OneLogOutcomes(ScanStart(cursor, best), ScanEnd(cursor, best)))
    /\ first_start' = IF first_start = None THEN Some(cursor) ELSE first_start
    /\ covered' = IF scan_ret'.tag = "Ok"
                  THEN covered \cup QueriedBlocks(cursor, best)
                  ELSE covered
    /\ twice' = IF scan_ret'.tag = "Ok"
                THEN twice \cup (covered \cap QueriedBlocks(cursor, best))
                ELSE twice
    /\ scan_failed' = (scan_failed \/ scan_ret'.tag # "Ok")

\* The caller keeps what the call returned as its cursor, the end on Ok and
\* the reported start on Err, and is ready for the next call.
TakeResult ==
    /\ scan_pc = "returned"
    /\ cursor' = IF scan_ret.tag = "Ok" THEN scan_ret.cursor ELSE scan_ret.start[1]
    /\ scan_pc' = "ready"
    /\ scan_in' = None
    /\ scan_win' = None
    /\ scan_ret' = [tag |-> "None"]
    /\ scan_rpc' = None
    /\ UNCHANGED <<top, span, best, first_start, covered, twice, scan_failed>>
    /\ UNCHANGED <<verifyVars, submitVars, kiltVars, primVars>>

\* The chain's best block as the caller reads it before the next call: it
\* grows, or falls back after a reorganisation.
BestChanges ==
    /\ scan_pc = "ready"
    /\ \E b \in BlockNums \ {best} : best' = b
    /\ UNCHANGED <<top, span, cursor, scan_pc, scan_in, scan_win, scan_ret,
                   scan_rpc, first_start, covered, twice, scan_failed>>
    /\ UNCHANGED <<verifyVars, submitVars, kiltVars, primVars>>

ScanNext == ScanEvents \/ TakeResult \/ BestChanges

\* The chain's best block grows between two calls.
BestGrows == BestChanges /\ best' > best

\* A chain of calls with best non-decreasing.
ScanChainNext == ScanEventsChained \/ TakeResult \/ BestGrows

\* The calls of a caller that reads no new best block.
ScanFixedBestNext == ScanEventsOneLog \/ TakeResult

(***************************************************************************)
(* primitives: the JSON of the queue payloads                              *)
(*                                                                         *)
(* A JSON text is kept as its parse: [kind, entries] with entries the      *)
(* members of the top-level object in the order written; a member key is   *)
(* the sequence of its characters.  The object of a ProofEvent carries     *)
(* each field under its own name, as derive(Serialize) writes it.          *)
(***************************************************************************)
MinOf(S) == CHOOSE n \in S : \A m \in S : n <= m

HexChars ==
    <<"0", "1", "2", "3", "4", "5", "6", "7", "8", "9", "a", "b", "c", "d", "e", "f">>

\* Hex digits of fixed width two.
ToHexDigitsPadded(n) == <<HexChars[((n \div 16) % 16) + 1], HexChars[(n % 16) + 1]>>

\* The hex digits of a U64 without leading zeros: 33 is "21", 0 is "0".
RECURSIVE ToHexDigits(_)
ToHexDigits(n) ==
    IF n < 16
    THEN <<HexChars[n + 1]>>
    ELSE Append(ToHexDigits(n \div 16), HexChars[(n % 16) + 1])

\* Serialize for U64: "0x21" for 33, "0x0" for 0.
U64ToJson(n) == <<"0", "x">> \o ToHexDigits(n)

IsHexChar(ch) == \E i \in 1 .. 16 : HexChars[i] = ch
HexVal(ch) == (CHOOSE i \in 1 .. 16 : HexChars[i] = ch) - 1

RECURSIVE FromHexDigits(_)
FromHexDigits(s) ==
    IF s = <<>>
    THEN 0
    ELSE FromHexDigits(SubSeq(s, 1, Len(s) - 1)) * 16 + HexVal(s[Len(s)])

\* Deserialize for U64: Some(n) for "0x" followed by hex digits, else None.
U64FromJson(s) ==
    IF /\ Len(s) >= 3
       /\ s[1] = "0"
       /\ s[2] = "x"
       /\ \A i \in 3 .. Len(s) : IsHexChar(s[i])
    THEN Some(FromHexDigits(SubSeq(s, 3, Len(s))))
    ELSE None

\* The members of the object written for a BTreeMap: one per key, in the
\* map's iteration order, which is the numeric order of the U64 keys.
RECURSIVE MapEntries(_, _)
MapEntries(er, keys) ==
    IF keys = {}
    THEN <<>>
    ELSE LET n == MinOf(keys) IN
         <<[key |-> U64ToJson(n), value |-> er[n]]>> \o MapEntries(er, keys \ {n})

\* EventResult::into_bytes: serde_json::to_vec(&self); Some(json) is Ok(json).
into_bytes(self) ==
    Some([kind |-> "object", entries |-> MapEntries(self, DOMAIN self)])

\* The number of the key of the i-th member.
KeyOf(json, i) == U64FromJson(json.entries[i].key)

\* EventResult::try_from_bytes: serde_json::from_slice(json); Some(map) is
\* Ok(map), None a parse error.  A key read twice keeps its last value.
try_from_bytes(json) ==
    IF json.kind # "object"
    THEN None
    ELSE IF \E i \in 1 .. Len(json.entries) : KeyOf(json, i) = None
    THEN None
    ELSE LET idx == 1 .. Len(json.entries)
             last(n) == CHOOSE i \in idx :
                            /\ KeyOf(json, i) = Some(n)
                            /\ \A j \in idx : KeyOf(json, j) = Some(n) => j <= i
         IN  Some([n \in {KeyOf(json, i)[1] : i \in idx} |->
                      json.entries[last(n)].value])

\* Bytes that end before the JSON text is complete.
Truncated == [kind |-> "truncated", entries |-> <<>>]
\* Bytes that are not UTF-8 where the JSON has a string, e.g. in proof_cid.
InvalidUtf8 == [kind |-> "invalid_utf8", entries |-> <<>>]
\* An object whose key is a decimal number, not "0x" hex.
BadKey == [kind |-> "object", entries |-> <<[key |-> <<"1">>, value |-> <<>>]>>]

\* serde_json::to_vec(&v) of a VerifyResult: number as U64, the other fields
\* under their names.
VerifyResultToJson(v) == [v EXCEPT !.number = U64ToJson(v.number)]

\* serde_json::from_slice of the JSON of a VerifyResult.
VerifyResultFromJson(j) ==
    IF U64FromJson(j.number) = None
    THEN None
    ELSE Some([j EXCEPT !.number = U64FromJson(j.number)[1]])

\* serde_json::to_vec(&res) of a Vec<VerifyResult>.
to_vec(res) == Some([i \in 1 .. Len(res) |-> VerifyResultToJson(res[i])])

\* The bytes of a big-endian number without its leading zero bytes.
RECURSIVE StripZeros(_)
StripZeros(bs) ==
    IF bs # <<>> /\ Head(bs) = 0 THEN StripZeros(Tail(bs)) ELSE bs

\* ProofEvent::public_inputs: u128::from_str_radix(&hex::encode(&field_name), 16)
\* .expect(..).  The parse fails for the empty string and for a number of
\* more than 16 bytes, and expect panics; the u128 is kept as its bytes.
public_inputs(p) ==
    IF p.field_name # <<>> /\ Len(StripZeros(p.field_name)) <= U128Bytes
    THEN [tag |-> "Ok", value |-> <<StripZeros(p.field_name)>>]
    ELSE [tag |-> "Panic"]

\* IpfsClient::fetch_proof(proofid): str::from_utf8(proofid).unwrap() panics
\* for bytes that are not UTF-8; the request then succeeds or fails.
fetch_proof(proofid) ==
    IF proofid \in ProofCids THEN {"Ok", "Err"} ELSE {"Panic"}

\* An update that does not look at attest.revoked before writing.
update_from_attestation_unchecked(self, attest) ==
    [self |-> [self EXCEPT !.c_type = attest.ctype_hash,
                           !.attester = attest.attester],
     ret |-> IF ~attest.revoked THEN "Ok" ELSE "Err"]

\* VerifyResult::update_from_attestation(&mut self, attest): self after the
\* call and the value returned.
update_from_attestation(self, attest) ==
    IF ~attest.revoked
    THEN [self |-> [self EXCEPT !.c_type = attest.ctype_hash,
                                !.attester = attest.attester],
          ret |-> "Ok"]
    ELSE [self |-> self, ret |-> "Err"]

\* VerifyResult::new_from_proof_event(p, number, passed)
new_from_proof_event(p, number, passed) ==
    [number |-> number, data_owner |-> p.data_owner, root_hash |-> p.root_hash,
     c_type |-> p.c_type, program_hash |-> p.program_hash,
     request_hash |-> p.request_hash, attester |-> p.attester,
     is_passed |-> passed]

\* Block numbers written and read back: one and two hex digits, three at 256,
\* and pairs whose order as text differs from their order as numbers.
CodecBlocks == {0, 1, 9, 10, 16, 17, 33, 255, 256}

PrimEventResults ==
    UNION {[S -> {<<>>} \cup [1 .. 1 -> ProofEvents]] :
              S \in {T \in SUBSET CodecBlocks : Cardinality(T) <= MaxMapKeys}}

PrimVerifyResults ==
    {new_from_proof_event(p, n, b) :
        p \in ProofEvents, n \in CodecBlocks, b \in BOOLEAN}

\* kilt::Attestation, the fields update_from_attestation reads.
Attestations ==
    [ctype_hash : {"c1", "c2"}, attester : {"t1", "t2"}, revoked : BOOLEAN]

PrimIdle ==
    /\ p_op = "none"
    /\ p_pc = "idle"
    /\ p_in = None
    /\ p_attest = None
    /\ p_bytes = None
    /\ p_out = None
    /\ p_ret = "none"

\* One input for one of the functions.
PrimInit ==
    /\ p_pc = "ready"
    /\ p_bytes = None
    /\ p_out = None
    /\ p_ret = "none"
    /\ \/ /\ p_op = "EventResult"
          /\ p_in \in {Some(er) : er \in PrimEventResults}
          /\ p_attest = None
       \/ /\ p_op = "VerifyResult"
          /\ p_in \in {Some(v) : v \in PrimVerifyResults}
          /\ p_attest = None
       \/ /\ p_op = "update"
          /\ p_in \in {Some(v) : v \in PrimVerifyResults}
          /\ p_attest \in {Some(a) : a \in Attestations}

\* test_event.into_bytes()
IntoBytes ==
    /\ p_op = "EventResult"
    /\ p_pc = "ready"
    /\ p_bytes' = into_bytes(p_in[1])
    /\ p_ret' = IF into_bytes(p_in[1]) = None THEN "Err" ELSE "Ok"
    /\ p_pc' = "encoded"
    /\ UNCHANGED <<p_op, p_in, p_attest, p_out>>
    /\ UNCHANGED <<scanVars, verifyVars, submitVars, kiltVars>>

\* EventResult::try_from_bytes(json)
TryFromBytes ==
    /\ p_op = "EventResult"
    /\ p_pc = "encoded"
    /\ p_bytes # None
    /\ p_out' = try_from_bytes(p_bytes[1])
    /\ p_ret' = IF try_from_bytes(p_bytes[1]) = None THEN "Err" ELSE "Ok"
    /\ p_pc' = "decoded"
    /\ UNCHANGED <<p_op, p_in, p_attest, p_bytes>>
    /\ UNCHANGED <<scanVars, verifyVars, submitVars, kiltVars>>

\* serde_json::to_vec(&v_res)
ToVec ==
    /\ p_op = "VerifyResult"
    /\ p_pc = "ready"
    /\ p_bytes' = Some(VerifyResultToJson(p_in[1]))
    /\ p_ret' = "Ok"
    /\ p_pc' = "encoded"
    /\ UNCHANGED <<p_op, p_in, p_attest, p_out>>
    /\ UNCHANGED <<scanVars, verifyVars, submitVars, kiltVars>>

\* serde_json::from_slice(&v_res_bytes)
FromSlice ==
    /\ p_op = "VerifyResult"
    /\ p_pc = "encoded"
    /\ p_out' = VerifyResultFromJson(p_bytes[1])
    /\ p_ret' = IF VerifyResultFromJson(p_bytes[1]) = None THEN "Err" ELSE "Ok"
    /\ p_pc' = "decoded"
    /\ UNCHANGED <<p_op, p_in, p_attest, p_bytes>>
    /\ UNCHANGED <<scanVars, verifyVars, submitVars, kiltVars>>

\* v.update_from_attestation(attest)
UpdateFromAttestation ==
    /\ p_op = "update"
    /\ p_pc = "ready"
    /\ LET r == update_from_attestation(p_in[1], p_attest[1]) IN
           /\ p_out' = Some(r.self)
           /\ p_ret' = r.ret
    /\ p_pc' = "updated"
    /\ UNCHANGED <<p_op, p_in, p_attest, p_bytes>>
    /\ UNCHANGED <<scanVars, verifyVars, submitVars, kiltVars>>

PrimNext == IntoBytes \/ TryFromBytes \/ ToVec \/ FromSlice \/ UpdateFromAttestation

(***************************************************************************)
(* task_verify                                                             *)
(***************************************************************************)
VBlocks == {1, 2}

\* The events the queued EventResults are made of.
QueuedEvents == {e \in ProofEvents : e.request_hash = "r1"}

\* EventResult = BTreeMap<U64, Vec<ProofEvent>>: the events of every block
\* named "age", or one block with an event of any name.
EventResults ==
    {er \in UNION {[S -> [1 .. 1 -> QueuedEvents]] : S \in SUBSET VBlocks} :
        \/ \A n \in DOMAIN er : er[n][1].field_name = Age
        \/ DOMAIN er = {1}}

\* Queue payloads: the JSON of an EventResult, or bytes that are no such JSON.
Payloads ==
    {Truncated, BadKey, InvalidUtf8} \cup {into_bytes(er)[1] : er \in EventResults}

\* The (number, event) pairs of an EventResult in BTreeMap iteration order.
RECURSIVE EventsInOrder(_, _)
EventsInOrder(er, keys) ==
    IF keys = {}
    THEN <<>>
    ELSE LET n == MinOf(keys) IN
         [i \in 1 .. Len(er[n]) |-> [number |-> n, proof_event |-> er[n][i]]]
             \o EventsInOrder(er, keys \ {n})

\* query_and_verify on success: one VerifyResult per event, block number kept,
\* passed[i] the verdict of the i-th event.
VerifyBatch(er, passed) ==
    LET evs == EventsInOrder(er, DOMAIN er) IN
    [i \in 1 .. Len(evs) |->
        new_from_proof_event(evs[i].proof_event, evs[i].number, passed[i])]

\* query_and_verify fetches the proof and derives the public inputs of every
\* event it comes to: the call panics when one of the two does.
VerifyPanics(er) ==
    \E n \in DOMAIN er : \E i \in 1 .. Len(er[n]) :
        \/ "Panic" \in fetch_proof(er[n][i].proof_cid)
        \/ public_inputs(er[n][i]).tag = "Panic"

\* Every batch query_and_verify can return for er.
VerifyBatches(er) ==
    LET n == Len(EventsInOrder(er, DOMAIN er)) IN
    {VerifyBatch(er, passed) : passed \in [1 .. n -> BOOLEAN]}

\* while let Ok(events) = recv_timeout(..).await { match events { Some(a) => a,
\* None => continue } .. }: Err leaves the loop, Ok(None) polls again.
OnRecv(r) ==
    IF r = "closed" THEN "returned" ELSE IF r = "timeout" THEN "recv" ELSE "parse"

\* A parse error that skips the message.
OnParseErrSkipped(ok) == IF ok THEN "verify" ELSE "recv"

\* match inputs { Ok(r) => r, Err(e) => return Err((None, e.into())) }
OnParse(ok) == IF ok THEN "verify" ELSE "returned"

\* A commit error after which the batch is sent again.
OnCommitErrResend(ok) == IF ok THEN "recv" ELSE "send"

\* A send status Err that falls through to the commit.
OnSendStatusFallThrough(ok) == "commit"

\* match status { Ok(_) => commit, Err(e) => return Err((None, e.into())) }
OnSendStatus(ok) == IF ok THEN "commit" ELSE "returned"

\* A commit whose error is dropped.
OnCommitErrDropped(ok) == "recv"

\* events.commit().map_err(|e| (None, e.into()))?
OnCommit(ok) == IF ok THEN "recv" ELSE "returned"

VerifyErr(number, src) == [tag |-> "Err", number |-> number, src |-> src]

VerifyInit ==
    /\ inq = <<>>
    /\ in_next = 0
    /\ acked = {}
    /\ in_closed = FALSE
    /\ outq = <<>>
    /\ v_pc = "recv"
    /\ v_cur = None
    /\ v_inputs = None
    /\ v_res = None
    /\ v_last = "none"
    /\ it_send = "none"
    /\ it_commit = "none"
    /\ v_ret = [tag |-> "None"]
    /\ v_runs = 1
    /\ v_log = <<>>

\* The upstream stage sends a payload into the inbound queue.
Enqueue ==
    /\ in_next < MaxMsgs
    /\ ~in_closed
    /\ \E b \in Payloads :
          inq' = Append(inq, [id |-> in_next + 1, bytes |-> b])
    /\ in_next' = in_next + 1
    /\ UNCHANGED <<acked, in_closed, outq, v_pc, v_cur, v_inputs, v_res, v_last,
                   it_send, it_commit, v_ret, v_runs, v_log>>
    /\ UNCHANGED <<scanVars, submitVars, kiltVars, primVars>>

\* The inbound queue is closed: recv returns Err from now on.
CloseQueue ==
    /\ ~in_closed
    /\ in_closed' = TRUE
    /\ UNCHANGED <<inq, in_next, acked, outq, v_pc, v_cur, v_inputs, v_res, v_last,
                   it_send, it_commit, v_ret, v_runs, v_log>>
    /\ UNCHANGED <<scanVars, submitVars, kiltVars, primVars>>

\* while let Ok(events) = recv_timeout(1s).await { match events { None => continue ..
Recv ==
    /\ v_pc = "recv"
    /\ LET r == IF in_closed THEN "closed"
                ELSE IF inq = <<>> THEN "timeout" ELSE "msg"
       IN  /\ v_last' = r
           /\ v_pc' = OnRecv(r)
           /\ v_ret' = IF OnRecv(r) = "returned" THEN [tag |-> "Ok"] ELSE v_ret
           /\ IF r = "msg"
              THEN /\ v_cur' = Some(Head(inq))
                   /\ v_inputs' = None
                   /\ v_res' = None
                   /\ it_send' = "none"
                   /\ it_commit' = "none"
                   /\ v_log' = Append(v_log, [op |-> "recv", id |-> Head(inq).id])
              ELSE UNCHANGED <<v_cur, v_inputs, v_res, it_send, it_commit, v_log>>
    /\ UNCHANGED <<inq, in_next, acked, in_closed, outq, v_runs>>
    /\ UNCHANGED <<scanVars, submitVars, kiltVars, primVars>>

\* let inputs = EventResult::try_from_bytes(&*events); Err => return Err((None, e))
Parse ==
    /\ v_pc = "parse"
    /\ LET inputs == try_from_bytes(v_cur[1].bytes) IN
       /\ v_pc' = OnParse(inputs # None)
       /\ IF inputs = None
          THEN /\ v_ret' = VerifyErr(None, "parse")
               /\ UNCHANGED v_inputs
          ELSE /\ v_inputs' = inputs
               /\ UNCHANGED v_ret
    /\ UNCHANGED <<inq, in_next, acked, in_closed, outq, v_cur, v_res, v_last,
                   it_send, it_commit, v_runs, v_log>>
    /\ UNCHANGED <<scanVars, submitVars, kiltVars, primVars>>

\* let res = query_and_verify(..).await.map_err(|e| (Some(e.0), e.1))?;
\* an error is attributed to the block of the event it came from.
QueryAndVerify ==
    /\ v_pc = "verify"
    /\ \/ /\ VerifyPanics(v_inputs[1])
          /\ v_pc' = "panicked"
          /\ UNCHANGED <<v_ret, v_res>>
       \/ \E res \in VerifyBatches(v_inputs[1]) :
             /\ ~VerifyPanics(v_inputs[1])
             /\ v_res' = Some(res)
             /\ v_pc' = "send"
             /\ UNCHANGED v_ret
       \/ \E n \in DOMAIN v_inputs[1] :
             /\ v_pc' = "returned"
             /\ v_ret' = VerifyErr(Some(n), "verify")
             /\ UNCHANGED v_res
    /\ UNCHANGED <<inq, in_next, acked, in_closed, outq, v_cur, v_inputs, v_last,
                   it_send, it_commit, v_runs, v_log>>
    /\ UNCHANGED <<scanVars, submitVars, kiltVars, primVars>>

\* let status = msg_queue.0.send(serde_json::to_vec(&res).map_err(..)?).await;
\* followed by the match on status.
Send ==
    /\ v_pc = "send"
    /\ \/ \* serde_json::to_vec failed
          /\ v_pc' = "returned"
          /\ v_ret' = VerifyErr(None, "serialize")
          /\ UNCHANGED <<outq, it_send, v_log>>
       \/ \E ok \in BOOLEAN :
             /\ it_send' = IF ok THEN "ok" ELSE "failed"
             /\ v_log' = Append(v_log, [op |-> "send", id |-> v_cur[1].id])
             /\ outq' = IF ok
                        THEN Append(outq, [from |-> v_cur[1].id,
                                           bytes |-> to_vec(v_res[1])[1]])
                        ELSE outq
             /\ v_pc' = OnSendStatus(ok)
             /\ v_ret' = IF ok THEN v_ret ELSE VerifyErr(None, "send")
    /\ UNCHANGED <<inq, in_next, acked, in_closed, v_cur, v_inputs, v_res, v_last,
                   it_commit, v_runs>>
    /\ UNCHANGED <<scanVars, submitVars, kiltVars, primVars>>

\* events.commit().map_err(|e| (None, e.into()))?;  a commit that succeeds
\* removes the message from the inbound queue.
Commit ==
    /\ v_pc = "commit"
    /\ \E ok \in BOOLEAN :
          /\ it_commit' = IF ok THEN "ok" ELSE "failed"
          /\ inq' = IF ok THEN Tail(inq) ELSE inq
          /\ acked' = IF ok THEN acked \cup {v_cur[1].id} ELSE acked
          /\ v_pc' = OnCommit(ok)
          /\ v_ret' = IF ok THEN v_ret ELSE VerifyErr(None, "commit")
          /\ v_log' = Append(v_log, [op |-> "commit", id |-> v_cur[1].id])
    /\ UNCHANGED <<in_next, in_closed, outq, v_cur, v_inputs, v_res, v_last,
                   it_send, v_runs>>
    /\ UNCHANGED <<scanVars, submitVars, kiltVars, primVars>>

\* The supervisor starts the stage again after it returned; the guard of an
\* uncommitted message was dropped, so recv delivers that message again.
Restart ==
    /\ v_pc = "returned"
    /\ v_runs < MaxRuns
    /\ v_runs' = v_runs + 1
    /\ v_pc' = "recv"
    /\ v_cur' = None
    /\ v_inputs' = None
    /\ v_res' = None
    /\ v_last' = "none"
    /\ it_send' = "none"
    /\ it_commit' = "none"
    /\ v_ret' = [tag |-> "None"]
    /\ v_log' = <<>>
    /\ UNCHANGED <<inq, in_next, acked, in_closed, outq>>
    /\ UNCHANGED <<scanVars, submitVars, kiltVars, primVars>>

VerifyNext ==
    Enqueue \/ CloseQueue \/ Recv \/ Parse \/ QueryAndVerify \/ Send \/ Commit \/ Restart

(***************************************************************************)
(* submit_txs                                                              *)
(***************************************************************************)
Pairs == Owners \X Hashes
SubNumbers == {Some(1), Some(2)}

\* The fields of a VerifyResult that submit_txs branches on or reports; the
\* others are copied into the transaction.
SubmitItems == [number : SubNumbers, data_owner : Owners, request_hash : Hashes]

Batches == UNION {[1 .. n -> SubmitItems] : n \in 0 .. MaxBatch}

PairOf(v) == <<v.data_owner, v.request_hash>>

BoolStr(b) == IF b THEN "true" ELSE "false"

\* A guard that looks at hasSubmitted alone.
ShouldSubmitOneGuard(has_submitted, is_finished) == ~has_submitted

\* if !has_submitted && !is_finished
ShouldSubmit(has_submitted, is_finished) == ~has_submitted /\ ~is_finished

\* An error that carries no block number.
ErrNumberNone(v) == None

\* .map_err(|e| (v.number, e.into()))?  and  return Err((v.number, e.into()))
ErrNumber(v) == v.number

SubmitInit ==
    /\ hasSubmitted = [p \in Pairs |-> FALSE]
    /\ isFinished = [p \in Pairs |-> FALSE]
    /\ pendingTx = [p \in Pairs |-> 0]
    /\ issued = [p \in Pairs |-> 0]
    /\ sub_pc = "idle"
    /\ sub_res = <<>>
    /\ sub_i = 0
    /\ sub_has = None
    /\ sub_trace = <<>>
    /\ sub_ret = [tag |-> "None"]
    /\ sub_calls = 0

chainVars == <<hasSubmitted, isFinished, pendingTx, issued>>

\* The end of the body of `for v in res` for item sub_i: the next item, or Ok(()).
NextItem ==
    /\ sub_i' = sub_i + 1
    /\ sub_has' = None
    /\ IF sub_i + 1 > Len(sub_res)
       THEN sub_pc' = "idle" /\ sub_ret' = [tag |-> "Ok"]
       ELSE sub_pc' = "has" /\ UNCHANGED sub_ret

\* return Err((number, e)) while item sub_i is processed.
ReturnErr(number) ==
    /\ sub_pc' = "idle"
    /\ sub_ret' = [tag |-> "Err", number |-> number]
    /\ UNCHANGED <<sub_i, sub_has>>

\* A batch is delivered: submit_txs(contract, keeper_pri, keeper_address, res).
SubmitTxs ==
    /\ sub_pc = "idle"
    /\ sub_calls < MaxDeliveries
    /\ sub_calls' = sub_calls + 1
    /\ \E res \in Batches :
          /\ sub_res' = res
          /\ sub_i' = 1
          /\ sub_has' = None
          /\ sub_trace' = <<>>
          /\ IF res = <<>>
             THEN sub_pc' = "idle" /\ sub_ret' = [tag |-> "Ok"]
             ELSE sub_pc' = "has" /\ sub_ret' = [tag |-> "None"]
    /\ UNCHANGED chainVars
    /\ UNCHANGED <<scanVars, verifyVars, kiltVars, primVars>>

\* contract.query(SUBMIT_STATUS_QUERY, (keeper_address, v.data_owner, v.request_hash), ..)
QueryHasSubmitted ==
    /\ sub_pc = "has"
    /\ LET v == sub_res[sub_i] IN
       \/ /\ sub_trace' = Append(sub_trace,
                [op |-> "has", idx |-> sub_i, out |-> BoolStr(hasSubmitted[PairOf(v)])])
          /\ sub_has' = Some(hasSubmitted[PairOf(v)])
          /\ sub_pc' = "fin"
          /\ UNCHANGED <<sub_i, sub_ret>>
       \/ /\ sub_trace' = Append(sub_trace, [op |-> "has", idx |-> sub_i, out |-> "err"])
          /\ ReturnErr(ErrNumber(v))
    /\ UNCHANGED <<chainVars, sub_res, sub_calls>>
    /\ UNCHANGED <<scanVars, verifyVars, kiltVars, primVars>>

\* contract.query(IS_FINISHED, (v.data_owner, v.request_hash), ..) and the guard
QueryIsFinished ==
    /\ sub_pc = "fin"
    /\ LET v == sub_res[sub_i] IN
       \/ /\ sub_trace' = Append(sub_trace,
                [op |-> "fin", idx |-> sub_i, out |-> BoolStr(isFinished[PairOf(v)])])
          /\ IF ShouldSubmit(sub_has[1], isFinished[PairOf(v)])
             THEN sub_pc' = "submit" /\ UNCHANGED <<sub_i, sub_has, sub_ret>>
             ELSE NextItem
       \/ /\ sub_trace' = Append(sub_trace, [op |-> "fin", idx |-> sub_i, out |-> "err"])
          /\ ReturnErr(ErrNumber(v))
    /\ UNCHANGED <<chainVars, sub_res, sub_calls>>
    /\ UNCHANGED <<scanVars, verifyVars, kiltVars, primVars>>

\* contract.signed_call_with_confirmations(SUBMIT_VERIFICATION, ..).await and the
\* match on its result. Ok: the transaction was mined and confirmed. Err: the
\* transaction was never sent, or it was sent and the wait for its receipt or
\* confirmations failed, so it is still pending.
SignedCall ==
    /\ sub_pc = "submit"
    /\ LET v == sub_res[sub_i]
           p == PairOf(sub_res[sub_i]) IN
       \/ /\ sub_trace' = Append(sub_trace, [op |-> "tx", idx |-> sub_i, out |-> "ok"])
          /\ issued' = [issued EXCEPT ![p] = @ + 1]
          /\ hasSubmitted' = [hasSubmitted EXCEPT ![p] = TRUE]
          /\ UNCHANGED <<isFinished, pendingTx>>
          /\ NextItem
       \/ /\ sub_trace' = Append(sub_trace,
                [op |-> "tx", idx |-> sub_i, out |-> "err_unsent"])
          /\ UNCHANGED chainVars
          /\ ReturnErr(ErrNumber(v))
       \/ /\ sub_trace' = Append(sub_trace,
                [op |-> "tx", idx |-> sub_i, out |-> "err_pending"])
          /\ issued' = [issued EXCEPT ![p] = @ + 1]
          /\ pendingTx' = [pendingTx EXCEPT ![p] = @ + 1]
          /\ UNCHANGED <<hasSubmitted, isFinished>>
          /\ ReturnErr(ErrNumber(v))
    /\ UNCHANGED <<sub_res, sub_calls>>
    /\ UNCHANGED <<scanVars, verifyVars, kiltVars, primVars>>

\* A pending transaction is mined: the contract records the submission.
MineTx ==
    /\ \E p \in Pairs :
          /\ pendingTx[p] > 0
          /\ pendingTx' = [pendingTx EXCEPT ![p] = @ - 1]
          /\ hasSubmitted' = [hasSubmitted EXCEPT ![p] = TRUE]
    /\ UNCHANGED <<isFinished, issued, sub_pc, sub_res, sub_i, sub_has, sub_trace,
                   sub_ret, sub_calls>>
    /\ UNCHANGED <<scanVars, verifyVars, kiltVars, primVars>>

\* The contract finalizes a pair (the threshold of keepers was reached).
Finalize ==
    /\ \E p \in Pairs :
          /\ ~isFinished[p]
          /\ isFinished' = [isFinished EXCEPT ![p] = TRUE]
    /\ UNCHANGED <<hasSubmitted, pendingTx, issued, sub_pc, sub_res, sub_i, sub_has,
                   sub_trace, sub_ret, sub_calls>>
    /\ UNCHANGED <<scanVars, verifyVars, kiltVars, primVars>>

SubmitNext ==
    SubmitTxs \/ QueryHasSubmitted \/ QueryIsFinished \/ SignedCall \/ MineTx \/ Finalize

(***************************************************************************)
(* query_attestation                                                       *)
(***************************************************************************)
Roots == {"h1", "h2"}

\* const MAX_RETRY_TIMES: usize = 5;
MAX_RETRY_TIMES == 5

\* Outcomes of api.storage().attestation().attestations(root_hash, None).await:
\* Ok(details), Err(Rpc(RequestTimeout)), Err(Rpc(other)), Err(not Rpc).
ReadOutcomes == {"ok", "timeout", "rpc_other", "not_rpc"}

\* A retry test that lets the counter reach the cap once more.
ShouldRetryInclusive(e, t) == e = "timeout" /\ t <= MAX_RETRY_TIMES

\* A retry test that does not look at the kind of the error.
ShouldRetryAnyError(e, t) == t < MAX_RETRY_TIMES

\* Rpc(RequestTimeout) => if times < MAX_RETRY_TIMES { times += 1; continue }
ShouldRetry(e, t) == e = "timeout" /\ t < MAX_RETRY_TIMES

\* A validity that reports a missing record as valid.
is_valid_absent_true(details) == details # "revoked"

\* maybe_attestation_details.map_or_else(|| false, |detail| !detail.revoked)
is_valid(details) == IF details = "absent" THEN FALSE ELSE details # "revoked"

KiltInit ==
    /\ attestations = [h \in Roots |-> "absent"]
    /\ k_pc = "idle"
    /\ k_root = "h1"
    /\ times = 0
    /\ k_reads = <<>>
    /\ k_details = None
    /\ k_ret = [tag |-> "None"]
    /\ k_calls = 0

\* query_attestation(url, root_hash): the client is built, or building it fails.
QueryAttestation ==
    /\ k_pc = "idle"
    /\ k_calls < MaxQueries
    /\ k_calls' = k_calls + 1
    /\ \E h \in Roots : k_root' = h
    /\ times' = 0
    /\ k_reads' = <<>>
    /\ k_details' = None
    /\ \/ k_pc' = "read" /\ k_ret' = [tag |-> "None"]
       \/ k_pc' = "idle" /\ k_ret' = [tag |-> "Err", kind |-> "build"]
    /\ UNCHANGED attestations
    /\ UNCHANGED <<scanVars, verifyVars, submitVars, primVars>>

\* One turn of the loop: the storage read and the match on its result.
StorageRead ==
    /\ k_pc = "read"
    /\ \E e \in ReadOutcomes :
          /\ k_reads' = Append(k_reads, e)
          /\ IF e = "ok"
             THEN /\ k_pc' = "idle"
                  /\ k_details' = Some(attestations[k_root])
                  /\ k_ret' = [tag |-> "Ok", value |-> is_valid(attestations[k_root])]
                  /\ UNCHANGED times
             ELSE IF ShouldRetry(e, times)
             THEN /\ times' = times + 1
                  /\ UNCHANGED <<k_pc, k_ret, k_details>>
             ELSE /\ k_pc' = "idle"
                  /\ k_ret' = [tag |-> "Err", kind |-> e]
                  /\ UNCHANGED <<times, k_details>>
    /\ UNCHANGED <<attestations, k_root, k_calls>>
    /\ UNCHANGED <<scanVars, verifyVars, submitVars, primVars>>

\* The attester writes an attestation for a root hash, or revokes one.
AttestationChanges ==
    /\ \E h \in Roots :
          \/ /\ attestations[h] = "absent"
             /\ attestations' = [attestations EXCEPT ![h] = "valid"]
          \/ /\ attestations[h] = "valid"
             /\ attestations' = [attestations EXCEPT ![h] = "revoked"]
    /\ UNCHANGED <<k_pc, k_root, times, k_reads, k_details, k_ret, k_calls>>
    /\ UNCHANGED <<scanVars, verifyVars, submitVars, primVars>>

KiltNext == QueryAttestation \/ StorageRead \/ AttestationChanges

(***************************************************************************)
(* Specifications                                                          *)
(***************************************************************************)
InitScan == ScanInit /\ VerifyInit /\ SubmitInit /\ KiltInit /\ PrimIdle
InitVerify == ScanIdle /\ VerifyInit /\ SubmitInit /\ KiltInit /\ PrimIdle
InitSubmit == ScanIdle /\ VerifyInit /\ SubmitInit /\ KiltInit /\ PrimIdle
InitKilt == ScanIdle /\ VerifyInit /\ SubmitInit /\ KiltInit /\ PrimIdle
InitPrim == ScanIdle /\ VerifyInit /\ SubmitInit /\ KiltInit /\ PrimInit

SpecScan == InitScan /\ [][ScanNext]_vars
SpecVerify == InitVerify /\ [][VerifyNext]_vars
SpecSubmit == InitSubmit /\ [][SubmitNext]_vars
SpecKilt == InitKilt /\ [][KiltNext]_vars
SpecPrim == InitPrim /\ [][PrimNext]_vars

\* The scanner called in a chain, each call from the cursor the call before
\* returned or, after an error, from the start it reported.
InitScanChain == ScanInit /\ VerifyInit /\ SubmitInit /\ KiltInit /\ PrimIdle
SpecScanChain == InitScanChain /\ [][ScanChainNext]_vars

\* The scanner with best fixed, whose caller keeps calling: a call that can
\* be made is made, and a result returned is taken.
InitScanFixedBest == ScanInit /\ VerifyInit /\ SubmitInit /\ KiltInit /\ PrimIdle
SpecScanFixedBest ==
    /\ InitScanFixedBest
    /\ [][ScanFixedBestNext]_vars
    /\ WF_vars(ScanEventsOneLog)
    /\ WF_vars(TakeResult)

(***************************************************************************)
(* Properties                                                              *)
(***************************************************************************)
TxAttempted(i) ==
    \E j \in 1 .. Len(sub_trace) : sub_trace[j].op = "tx" /\ sub_trace[j].idx = i

AtSubmit(i) == sub_pc = "submit" /\ sub_i = i

\* C1, as claimed: over any deliveries and redeliveries of batches to
\* submit_txs, at most one submitVerification transaction is issued for a
\* (data_owner, request_hash) pair.
C1_AtMostOneTxPerPair == \A p \in Pairs : issued[p] <= 1

Redeliverable(m) == \E i \in 1 .. Len(inq) : inq[i].id = m.id

AcceptedDownstream(id) == \E i \in 1 .. Len(outq) : outq[i].from = id

\* C2: commit() of an inbound message is called only after the send of its
\* batch returned success (so every committed message has a batch in the
\* downstream queue); when the send fails task_verify returns an error,
\* commit() is not called and the message stays in the inbound queue.
C2_CommitOnlyAfterSend ==
    /\ it_commit # "none" => it_send = "ok"
    /\ \A id \in acked : AcceptedDownstream(id)
    /\ it_send = "failed" =>
          /\ v_pc = "returned"
          /\ v_ret.tag = "Err"
          /\ it_commit = "none"
          /\ v_cur[1].id \notin acked
          /\ Redeliverable(v_cur[1])

\* C2 witness: a send failed and the stage returned with the message queued.
C2_Witness ==
    /\ it_send = "failed"
    /\ v_pc = "returned"
    /\ v_cur # None
    /\ Redeliverable(v_cur[1])

IterationEnded == v_cur # None /\ v_pc \in {"recv", "returned"}

\* C3, as claimed: at the end of a message's iteration, or at stage return,
\* the message is acknowledged if and only if its batch was accepted
\* downstream.
C3_AckIffSent == IterationEnded => (it_commit = "ok" <=> it_send = "ok")

\* C3, amended: at the end of a message's iteration, or at stage return, the
\* message is acknowledged only if its batch was accepted downstream; and a
\* message whose batch was accepted is left unacknowledged only when commit()
\* itself failed, in which case the stage returned Err((None, e)) and the
\* message is still in the inbound queue.
C3_AckOnlyIfSent_UnlessCommitFails ==
    IterationEnded =>
        /\ it_commit = "ok" => it_send = "ok"
        /\ (it_send = "ok" /\ it_commit # "ok") =>
              /\ it_commit = "failed"
              /\ v_pc = "returned"
              /\ v_ret = VerifyErr(None, "commit")
              /\ Redeliverable(v_cur[1])

\* C3 witness: the batch was accepted downstream and commit() failed.
C3_Witness ==
    /\ v_pc = "returned"
    /\ it_send = "ok"
    /\ it_commit = "failed"
    /\ AcceptedDownstream(v_cur[1].id)

GuardsRead(k) ==
    /\ k > 1
    /\ sub_trace[k].op = "fin"
    /\ sub_trace[k].out # "err"
    /\ sub_trace[k - 1].op = "has"
    /\ sub_trace[k - 1].idx = sub_trace[k].idx

\* C4: for each item whose two guard reads succeeded, a transaction is
\* submitted if and only if hasSubmitted and isFinished both returned false;
\* when either returned true the item is skipped without an error and the
\* next item of the batch is processed (or Ok(()) is returned after the last).
C4_SubmitIffBothGuardsFalse ==
    \A k \in 1 .. Len(sub_trace) :
        GuardsRead(k) =>
            LET i == sub_trace[k].idx
                bothFalse == sub_trace[k - 1].out = "false" /\ sub_trace[k].out = "false"
            IN  IF bothFalse
                THEN /\ TxAttempted(i) \/ AtSubmit(i)
                     /\ k < Len(sub_trace) =>
                            sub_trace[k + 1].op = "tx" /\ sub_trace[k + 1].idx = i
                ELSE /\ ~TxAttempted(i)
                     /\ ~AtSubmit(i)
                     /\ IF k < Len(sub_trace)
                        THEN sub_trace[k + 1].op = "has" /\ sub_trace[k + 1].idx = i + 1
                        ELSE /\ sub_i = i + 1
                             /\ IF i < Len(sub_res)
                                THEN sub_pc = "has" /\ sub_ret.tag = "None"
                                ELSE sub_pc = "idle" /\ sub_ret.tag = "Ok"

\* C4 witness: an item was skipped because isFinished returned true, and the
\* next item, with both guards false, was submitted.
C4_Witness ==
    \E k \in 2 .. Len(sub_trace) :
        /\ GuardsRead(k)
        /\ sub_trace[k - 1].out = "false"
        /\ sub_trace[k].out = "true"
        /\ TxAttempted(sub_trace[k].idx + 1)

Failed(k) == sub_trace[k].out \in {"err", "err_unsent", "err_pending"}

\* C5: when a guard read or the submission fails for item i, submit_txs
\* returns at once with an error carrying item i's block number; no
\* transaction is issued for item i when a guard read failed, and nothing is
\* read or submitted for an item after i.
C5_FailureAbortsBatch ==
    \A k \in 1 .. Len(sub_trace) :
        Failed(k) =>
            LET i == sub_trace[k].idx IN
            /\ k = Len(sub_trace)
            /\ sub_pc = "idle"
            /\ sub_ret = [tag |-> "Err", number |-> sub_res[i].number]
            /\ sub_trace[k].op \in {"has", "fin"} => ~TxAttempted(i)
            /\ \A j \in 1 .. Len(sub_trace) : sub_trace[j].idx <= i

\* C5 witness: the isFinished read failed for the first of several items, and
\* the first two items carry different block numbers.
C5_Witness ==
    /\ Len(sub_res) >= 2
    /\ sub_res[1].number # sub_res[2].number
    /\ Len(sub_trace) > 0
    /\ sub_trace[Len(sub_trace)].idx = 1
    /\ sub_trace[Len(sub_trace)].op = "fin"
    /\ sub_trace[Len(sub_trace)].out = "err"
    /\ sub_pc = "idle"

Called == scan_in # None

\* C6, as claimed: for all start <= best the computation of end neither
\* overflows nor aborts, and a successful scan queried [start, end] with
\* start <= end, end - start <= MOONBEAM_SCAN_SPAN and end <= best.
C6_WindowBoundedNoOverflow ==
    (Called /\ scan_in[1].start <= scan_in[1].best) =>
        /\ scan_ret.tag # "Panic"
        /\ scan_ret.tag = "Ok" =>
              /\ scan_win[1][1] = scan_in[1].start
              /\ scan_win[1][1] <= scan_win[1][2]
              /\ scan_win[1][2] - scan_win[1][1] <= MOONBEAM_SCAN_SPAN
              /\ scan_win[1][2] <= scan_in[1].best

\* C7, as claimed: for all start > best the call queries the window
\* [best, best], and when it succeeds it returns best as the cursor.
C7_ClampedToBest ==
    (Called /\ scan_in[1].start > scan_in[1].best) =>
        /\ scan_ret.tag # "Panic"
        /\ scan_win = Some(<<scan_in[1].best, scan_in[1].best>>)
        /\ scan_ret.tag = "Ok" => scan_ret.cursor = scan_in[1].best

\* C8: a successful scan_events returns the end of the window it queried as
\* the new cursor, with or without events; a failed one returns no cursor,
\* only the start of the window it attempted.
C8_CursorIsEndOnOk_StartOnErr ==
    scan_pc = "returned" =>
        /\ scan_ret.tag \in {"Ok", "Err"}
        /\ scan_ret.tag = "Ok" => scan_ret.cursor = scan_win[1][2]
        /\ scan_ret.tag = "Err" =>
              /\ DOMAIN scan_ret = {"tag", "start"}
              /\ scan_ret.start = Some(scan_win[1][1])

\* C8 witness: a scan without events that moved the cursor forward.
C8_Witness ==
    /\ scan_pc = "returned"
    /\ scan_ret.tag = "Ok"
    /\ scan_ret.events = None
    /\ scan_ret.cursor > scan_in[1].start

\* C9, as claimed: the cursor after a successful scan is never lower than the
\* start passed in, and a failed scan reports the start passed in, also when
\* it was above best.
C9_MonotoneAndErrKeepsStart ==
    scan_pc = "returned" =>
        /\ scan_ret.tag = "Ok" => scan_ret.cursor >= scan_in[1].start
        /\ scan_ret.tag = "Err" => scan_ret.start = Some(scan_in[1].start)

\* C9, amended: when the start passed in is at most best, the cursor after a
\* successful scan is never lower than it and a failed scan reports it; when
\* it is above best, a successful scan returns best as the cursor and a
\* failed scan reports best, the clamped start.
C9_MonotoneUnlessClamped ==
    scan_pc = "returned" =>
        IF scan_in[1].start <= scan_in[1].best
        THEN /\ scan_ret.tag = "Ok" => scan_ret.cursor >= scan_in[1].start
             /\ scan_ret.tag = "Err" => scan_ret.start = Some(scan_in[1].start)
        ELSE /\ scan_ret.tag = "Ok" => scan_ret.cursor = scan_in[1].best
             /\ scan_ret.tag = "Err" => scan_ret.start = Some(scan_in[1].best)

\* C9 witness: a failed scan whose start was above best reported best.
C9_Witness ==
    /\ scan_pc = "returned"
    /\ scan_in[1].start > scan_in[1].best
    /\ scan_ret.tag = "Err"
    /\ scan_ret.start = Some(scan_in[1].best)

AllTimeouts ==
    /\ k_reads # <<>>
    /\ \A i \in 1 .. Len(k_reads) : k_reads[i] = "timeout"

\* C10, as claimed: when every storage read times out, the read is attempted
\* at most 5 times in total.
C10_AtMostFiveReads == AllTimeouts => Len(k_reads) <= MAX_RETRY_TIMES

\* C10, amended: when every storage read times out, the read is attempted at
\* most 6 times in total, once and then MAX_RETRY_TIMES = 5 retries; the
\* call is still in its loop before the sixth read and has returned the
\* timeout error after it, so it never loops forever.
C10_AtMostSixReads ==
    AllTimeouts =>
        /\ Len(k_reads) <= MAX_RETRY_TIMES + 1
        /\ times <= MAX_RETRY_TIMES
        /\ IF Len(k_reads) <= MAX_RETRY_TIMES
           THEN k_pc = "read" /\ times = Len(k_reads)
           ELSE k_pc = "idle" /\ k_ret = [tag |-> "Err", kind |-> "timeout"]

\* C10 witness: six reads timed out and the call returned the timeout error.
C10_Witness ==
    /\ AllTimeouts
    /\ Len(k_reads) = MAX_RETRY_TIMES + 1
    /\ k_ret = [tag |-> "Err", kind |-> "timeout"]

\* C11: a storage read that fails with an error other than an RPC request
\* timeout is the last read of the call, which returns that error, on the
\* first attempt or after timed-out ones; a read that succeeds, after at most
\* MAX_RETRY_TIMES timeouts, is the last read and the call returns Ok.
C11_OtherErrorsEndTheLoop ==
    \A i \in 1 .. Len(k_reads) :
        /\ k_reads[i] \in {"rpc_other", "not_rpc"} =>
              /\ i = Len(k_reads)
              /\ k_pc = "idle"
              /\ k_ret = [tag |-> "Err", kind |-> k_reads[i]]
        /\ k_reads[i] = "ok" =>
              /\ i = Len(k_reads)
              /\ i - 1 <= MAX_RETRY_TIMES
              /\ \A j \in 1 .. i - 1 : k_reads[j] = "timeout"
              /\ k_pc = "idle"
              /\ k_ret.tag = "Ok"

\* C11 witness: a read failed with another RPC error after two timeouts and
\* the call returned that error.
C11_Witness ==
    /\ k_reads = <<"timeout", "timeout", "rpc_other">>
    /\ k_pc = "idle"
    /\ k_ret = [tag |-> "Err", kind |-> "rpc_other"]

\* C12: when the storage read succeeds the call returns Ok(false) for a
\* missing record, Ok(false) for a revoked record and Ok(true) for a record
\* that is not revoked; a missing record is never an error.
C12_ValidIffPresentAndNotRevoked ==
    /\ k_ret.tag = "Ok" =>
          /\ k_details # None
          /\ k_details[1] = "absent" => k_ret.value = FALSE
          /\ k_details[1] = "revoked" => k_ret.value = FALSE
          /\ k_details[1] = "valid" => k_ret.value = TRUE
    /\ k_details # None => k_ret.tag = "Ok"

\* C12 witness: the read found no record and the call returned Ok(false).
C12_Witness ==
    /\ k_details = Some("absent")
    /\ k_ret = [tag |-> "Ok", value |-> FALSE]

\* C13: the JSON written for an EventResult reads back as an equal
\* EventResult, and the JSON written for a VerifyResult as an equal
\* VerifyResult; the keys of the EventResult's object are "0x" followed by the
\* hex digits of the block number without leading zeros, in increasing numeric
\* order.
C13_RoundTripAndCanonicalKeys ==
    /\ p_op \in {"EventResult", "VerifyResult"} /\ p_pc = "decoded" =>
          /\ p_ret = "Ok"
          /\ p_out = Some(p_in[1])
    /\ p_op = "EventResult" /\ p_pc \in {"encoded", "decoded"} =>
          /\ p_bytes # None
          /\ LET es == p_bytes[1].entries IN
                /\ Len(es) = Cardinality(DOMAIN p_in[1])
                /\ \A i \in 1 .. Len(es) :
                      /\ SubSeq(es[i].key, 1, 2) = <<"0", "x">>
                      /\ Len(es[i].key) >= 3
                      /\ Len(es[i].key) > 3 => es[i].key[3] # "0"
                      /\ FromHexDigits(SubSeq(es[i].key, 3, Len(es[i].key)))
                             \in DOMAIN p_in[1]
                /\ \A i \in 1 .. Len(es) - 1 :
                      FromHexDigits(SubSeq(es[i].key, 3, Len(es[i].key)))
                          < FromHexDigits(SubSeq(es[i + 1].key, 3, Len(es[i + 1].key)))
    /\ p_op = "VerifyResult" /\ p_pc \in {"encoded", "decoded"} =>
          /\ SubSeq(p_bytes[1].number, 1, 2) = <<"0", "x">>
          /\ Len(p_bytes[1].number) > 3 => p_bytes[1].number[3] # "0"

\* C13 witness: an EventResult with the keys 9 and 16, written with the keys
\* "0x9" and then "0x10", was read back.
C13_Witness ==
    /\ p_op = "EventResult"
    /\ p_pc = "decoded"
    /\ DOMAIN p_in[1] = {9, 16}
    /\ p_bytes[1].entries[1].key = <<"0", "x", "9">>
    /\ p_bytes[1].entries[2].key = <<"0", "x", "1", "0">>
    /\ p_out = p_in

\* C17: update_from_attestation with a revoked attestation returns an error
\* and leaves every field of the VerifyResult as it was; with an attestation
\* that is not revoked it returns Ok, sets c_type and attester to the
\* attestation's values and leaves number, data_owner, root_hash,
\* program_hash, request_hash and is_passed as they were.
C17_UpdateFromAttestationFrame ==
    p_op = "update" /\ p_pc = "updated" =>
        LET before == p_in[1]
            after == p_out[1]
            attest == p_attest[1]
        IN  /\ attest.revoked => p_ret = "Err" /\ after = before
            /\ ~attest.revoked =>
                  /\ p_ret = "Ok"
                  /\ after.c_type = attest.ctype_hash
                  /\ after.attester = attest.attester
                  /\ after.number = before.number
                  /\ after.data_owner = before.data_owner
                  /\ after.root_hash = before.root_hash
                  /\ after.program_hash = before.program_hash
                  /\ after.request_hash = before.request_hash
                  /\ after.is_passed = before.is_passed

\* C17 witness: an attestation that is not revoked replaced c_type and
\* attester by values the VerifyResult did not have.
C17_Witness ==
    /\ p_op = "update"
    /\ p_pc = "updated"
    /\ ~p_attest[1].revoked
    /\ p_ret = "Ok"
    /\ p_in[1].c_type = "c1" /\ p_out[1].c_type = "c2"
    /\ p_in[1].attester = "t1" /\ p_out[1].attester = "t2"

\* C14: a message that does not parse as an EventResult makes the stage
\* return an error without a block number at once: the message is not
\* skipped, nothing is sent for it, it is not committed and stays at the head
\* of the inbound queue, and the run does nothing after receiving it.
C14_ParseErrorReturnsAtOnce ==
    v_cur # None /\ v_pc # "parse" /\ try_from_bytes(v_cur[1].bytes) = None =>
        /\ v_pc = "returned"
        /\ v_ret = VerifyErr(None, "parse")
        /\ it_send = "none"
        /\ it_commit = "none"
        /\ v_cur[1].id \notin acked
        /\ ~AcceptedDownstream(v_cur[1].id)
        /\ inq # <<>>
        /\ Head(inq) = v_cur[1]
        /\ v_log # <<>>
        /\ v_log[Len(v_log)] = [op |-> "recv", id |-> v_cur[1].id]

\* C14 witness: the stage returned the parse error for the first message
\* while a second message waits in the queue.
C14_Witness ==
    /\ v_pc = "returned"
    /\ v_ret = VerifyErr(None, "parse")
    /\ v_cur # None
    /\ v_cur[1].id = 1
    /\ v_cur[1].bytes = BadKey
    /\ Len(inq) = 2

\* C15: within one run the messages are processed one at a time in the order
\* received: every send and every commit is for the message received last,
\* there is at most one send and one commit per received message, and a
\* message is received only after the send and the commit of the one before.
C15_OneMessageAtATime ==
    \A j \in 1 .. Len(v_log) :
        /\ v_log[j].op = "recv" /\ j > 1 =>
              /\ j >= 4
              /\ v_log[j - 3] = [op |-> "recv", id |-> v_log[j - 1].id]
              /\ v_log[j - 2] = [op |-> "send", id |-> v_log[j - 1].id]
              /\ v_log[j - 1].op = "commit"
              /\ v_log[j - 1].id < v_log[j].id
        /\ v_log[j].op = "send" =>
              /\ j > 1
              /\ v_log[j - 1] = [op |-> "recv", id |-> v_log[j].id]
        /\ v_log[j].op = "commit" =>
              /\ j > 2
              /\ v_log[j - 1] = [op |-> "send", id |-> v_log[j].id]
              /\ v_log[j - 2] = [op |-> "recv", id |-> v_log[j].id]

\* C15 witness: one run received, sent and committed message 1 and then
\* message 2.
C15_Witness ==
    /\ Len(v_log) = 6
    /\ v_log[1] = [op |-> "recv", id |-> 1]
    /\ v_log[4] = [op |-> "recv", id |-> 2]
    /\ v_log[6] = [op |-> "commit", id |-> 2]

\* C16: task_verify leaves its loop only when the receive returns an error,
\* and then returns Ok(()), or when a step of an iteration fails, and then
\* returns that error; a receive that times out does not end the stage, sends
\* nothing and commits nothing, and the stage polls again.
C16_LoopEndsOnlyOnRecvErrOrFatalError ==
    [][/\ v_pc \notin {"returned", "panicked"}
          /\ v_pc' \in {"returned", "panicked"} =>
             \/ Recv /\ in_closed /\ v_pc' = "returned" /\ v_ret' = [tag |-> "Ok"]
             \/ /\ v_pc \in {"parse", "verify", "send", "commit"}
                /\ v_pc' = "returned"
                /\ v_ret'.tag = "Err"
       /\ Recv /\ in_closed => v_pc' = "returned" /\ v_ret' = [tag |-> "Ok"]
       /\ Recv /\ ~in_closed /\ inq = <<>> =>
             /\ v_last' = "timeout"
             /\ UNCHANGED <<v_pc, v_ret, inq, acked, outq, it_send, it_commit, v_log>>
      ]_vars

\* C18: whatever ProofEvent reaches the stage, task_verify produces a batch
\* of VerifyResults or returns an error to its caller: it never panics.
C18_StageNeverPanics == v_pc # "panicked"

\* C20: a scan that succeeds returns Some(events) exactly when the events
\* query answered at least one log, and None otherwise; the events are one
\* per log, in the order of the logs, each with the block number of its own
\* log; a log without a block number does not make the scan fail.
C20_EventsAreTheLogsInOrder ==
    scan_pc = "returned" =>
        /\ scan_rpc # None
        /\ scan_rpc[1].ok <=> scan_ret.tag = "Ok"
        /\ scan_ret.tag = "Ok" =>
              LET logs == scan_rpc[1].logs IN
              /\ scan_ret.events # None <=> Len(logs) >= 1
              /\ scan_ret.events # None =>
                    /\ Len(scan_ret.events[1]) = Len(logs)
                    /\ \A i \in 1 .. Len(logs) :
                          /\ scan_ret.events[1][i].proof_event = logs[i].proof_event
                          /\ scan_ret.events[1][i].block_number
                                 = logs[i].log.block_number

\* C20 witness: a scan returned two events for two logs, the first with its
\* block number and the second, whose log has none, without.
C20_Witness ==
    /\ scan_pc = "returned"
    /\ scan_ret.tag = "Ok"
    /\ scan_ret.events # None
    /\ Len(scan_ret.events[1]) = 2
    /\ scan_ret.events[1][1].block_number # None
    /\ scan_ret.events[1][2].block_number = None
    /\ scan_ret.events[1][1].proof_event # scan_ret.events[1][2].proof_event

\* Every call of scan_events so far succeeded.
CallSucceeded == scan_pc # "aborted" /\ scan_ret.tag \notin {"Err", "Panic"}

\* A call that started below best returned a cursor above its start, and a
\* call that started at best returned best.
CallMovedForward ==
    scan_pc = "returned" /\ scan_ret.tag = "Ok" =>
        /\ scan_in[1].start < scan_in[1].best => scan_ret.cursor > scan_in[1].start
        /\ scan_in[1].start = scan_in[1].best => scan_ret.cursor = scan_in[1].best
        /\ scan_ret.cursor <= scan_in[1].best

\* C19: with best fixed, every call succeeding and every call starting at
\* the cursor the call before returned, a cursor below best strictly
\* increases with every call, reaches best after finitely many calls and
\* then stays at best.
C19_ForwardProgress ==
    /\ [][CallMovedForward' /\ (cursor = best => cursor' = best)]_vars
    /\ []CallSucceeded => ((cursor < best) ~> (cursor = best))

\* C19 witness: a call that started below best with no hit returned best as
\* the cursor.
C19_Witness ==
    /\ scan_pc = "returned"
    /\ scan_ret.tag = "Ok"
    /\ scan_ret.events = None
    /\ scan_in[1].start > 0
    /\ scan_in[1].start < scan_in[1].best
    /\ scan_ret.cursor = scan_in[1].best

\* The cursor the latest successful call of the chain returned.
LatestCursor ==
    IF scan_pc = "returned" /\ scan_ret.tag = "Ok"
    THEN Some(scan_ret.cursor)
    ELSE IF covered # {} THEN Some(cursor) ELSE None

\* C21: over a chain of calls with best non-decreasing, failed calls retried
\* from the start they report, every block from the first start to the
\* latest returned cursor is inside the window of a call that returned Ok.
C21_NoGap ==
    first_start # None /\ LatestCursor # None =>
        \A b \in BlockNums :
            first_start[1] <= b /\ b <= LatestCursor[1] => b \in covered

\* C21 witness: three blocks or more are covered by more than one call, one
\* of which failed and was retried.
C21_Witness ==
    /\ scan_failed
    /\ first_start # None
    /\ LatestCursor # None
    /\ LatestCursor[1] - first_start[1] > MOONBEAM_SCAN_SPAN
    /\ Cardinality(covered) >= 3

\* C22: over a chain of calls that all returned Ok, no block is inside the
\* inclusive window [start, end] of two calls.
C22_NoBlockInTwoWindows == ~scan_failed => twice = {}
====
